---- MODULE Spec2Model ----
(***************************************************************************)
(* Warden MCP server (src/server.js): the tool dispatcher, the command     *)
(* formatters, the process runner, the environment-list parser and the     *)
(* initializer's rewrite of the project's .env file.                       *)
(*                                                                         *)
(* Text is modelled character by character: a string is a sequence of      *)
(* one-character strings, so that trimming, splitting, substring search    *)
(* and the regular expressions of the source are computed, not assumed.    *)
(* The string "ESC" stands for the single character \x1b.                  *)
(***************************************************************************)
EXTENDS Integers, Sequences, FiniteSets, TLC

VARIABLES
    \* ---- parseEnvironmentList (src/server.js 429-483) ----
    srcLines,        \* the lines the status text was assembled from
    plainOut,        \* the status text before any colour code was inserted
    output,          \* parseEnvironmentList's argument
    ppc,             \* "off" | "start" | "loop" | "returned"
    lines,           \* output.split("\n")
    lineIdx,         \* index of the next line the for-loop visits
    currentProject,  \* the pending project name; <<>> is null
    environments,    \* the records pushed so far
    \* ---- initProject's pass over the .env file (src/server.js 914-947) ----
    epc,             \* "off" | "read" | "update" | "write" | "written"
    envArgs,         \* the arguments of the initProject call
    envBefore,       \* the file's content when the pass began
    envFileNow,      \* the file's content on disk
    envContentVar,   \* the local variable envContent
    keyIdx,          \* index of the next entry of `updates` the for-loop visits
    \* ---- tool calls (src/server.js 319-346, 349-427, 511-969) ----
    call,            \* the call being served: its position, locals and outcome
    nCalls,          \* calls dispatched so far
    dirs,            \* the directories that exist
    phpunitFiles,    \* the PHPUnit configuration files that exist: <<directory, name>>
    envExists,       \* the directories that hold a .env file
    envContent,      \* directory -> content of its .env file
    \* ---- executeCommand (src/server.js 971-1002) ----
    child,           \* "none" | "running" | "failed" | "errored" | "closed"
    spawnFailed,     \* the child could not be started
    exitCode,        \* the code of the 'close' event; <<>> before it
    rstdout,         \* the local variable stdout
    rstderr,         \* the local variable stderr
    promise,         \* the promise executeCommand returned
    settleCalls,     \* how many times resolve or reject was called
    received,        \* what the awaiting caller got
    \* ---- two initProject calls on one project path (src/server.js 878-969) ----
    ocall,           \* call -> its position, arguments and locals
    ofile,           \* the content of the project's .env file; NoFile when absent
    othread,         \* the call whose code the event loop is running; 0 when none
    opasses          \* the calls in the order their passes wrote the file

pvars == <<srcLines, plainOut, output, ppc, lines, lineIdx, currentProject, environments>>

evars == <<epc, envArgs, envBefore, envFileNow, envContentVar, keyIdx>>

fsvars == <<dirs, phpunitFiles, envExists, envContent>>

cvars == <<call, nCalls, fsvars>>

rvars == <<child, spawnFailed, exitCode, rstdout, rstderr, promise, settleCalls, received>>

ovars == <<ocall, ofile, othread, opasses>>

vars == <<pvars, evars, cvars, rvars, ovars>>

(***************************************************************************)
(* Strings                                                                 *)
(***************************************************************************)
ESC == "ESC"

\* JavaScript's white space (String.prototype.trim, \s) among the characters used.
WhiteSpace == {" ", "\t", "\r", "\n"}

\* The characters "." does not match.
LineTerminators == {"\n", "\r"}

\* \w
WordChars ==
    {"a", "b", "c", "d", "e", "f", "g", "h", "i", "j", "k", "l", "m",
     "n", "o", "p", "q", "r", "s", "t", "u", "v", "w", "x", "y", "z",
     "A", "B", "C", "D", "E", "F", "G", "H", "I", "J", "K", "L", "M",
     "N", "O", "P", "Q", "R", "S", "T", "U", "V", "W", "X", "Y", "Z",
     "0", "1", "2", "3", "4", "5", "6", "7", "8", "9", "_"}

\* [0-9;]
AnsiParamChars == {"0", "1", "2", "3", "4", "5", "6", "7", "8", "9", ";"}

Take(s, n) == SubSeq(s, 1, n)

Drop(s, n) == SubSeq(s, n + 1, Len(s))

StartsWith(s, p) == Len(s) >= Len(p) /\ SubSeq(s, 1, Len(p)) = p

\* String.prototype.includes
Includes(s, sub) ==
    \E i \in 0..(Len(s) - Len(sub)) : SubSeq(s, i + 1, i + Len(sub)) = sub

\* The length of the longest prefix of s made of characters of cls.
RECURSIVE CountLead(_, _)
CountLead(s, cls) ==
    IF s # <<>> /\ Head(s) \in cls THEN 1 + CountLead(Tail(s), cls) ELSE 0

\* The index of the first c in s, 0 when there is none.
RECURSIVE IndexOf(_, _)
IndexOf(s, c) ==
    IF s = <<>> THEN 0
    ELSE IF Head(s) = c THEN 1
    ELSE LET r == IndexOf(Tail(s), c) IN IF r = 0 THEN 0 ELSE r + 1

RECURSIVE TrimEnd(_)
TrimEnd(s) ==
    IF s # <<>> /\ s[Len(s)] \in WhiteSpace THEN TrimEnd(Take(s, Len(s) - 1)) ELSE s

\* String.prototype.trim
Trim(s) == TrimEnd(Drop(s, CountLead(s, WhiteSpace)))

\* String.prototype.split("\n"): the pieces between the line feeds, empty ones kept.
RECURSIVE SplitLines(_)
SplitLines(s) ==
    LET n == IndexOf(s, "\n")
    IN  IF n = 0 THEN <<s>>
        ELSE <<Take(s, n - 1)>> \o SplitLines(Drop(s, n))

\* Array.prototype.join("\n")
RECURSIVE JoinLines(_)
JoinLines(ls) ==
    IF ls = <<>> THEN <<>>
    ELSE IF Len(ls) = 1 THEN ls[1]
    ELSE ls[1] \o <<"\n">> \o JoinLines(Tail(ls))

(***************************************************************************)
(* parseEnvironmentList                                                    *)
(***************************************************************************)
NoRunningBanner ==
    <<"N", "o", " ", "r", "u", "n", "n", "i", "n", "g", " ", "e", "n", "v", "i",
      "r", "o", "n", "m", "e", "n", "t", "s", " ", "f", "o", "u", "n", "d">>

FoundBanner ==
    <<"F", "o", "u", "n", "d", " ", "t", "h", "e", " ", "f", "o", "l", "l", "o",
      "w", "i", "n", "g">>

ProjectDirectoryLabel ==
    <<"P", "r", "o", "j", "e", "c", "t", " ", "D", "i", "r", "e", "c", "t", "o",
      "r", "y", ":">>

ProjectUrlLabel == <<"P", "r", "o", "j", "e", "c", "t", " ", "U", "R", "L", ":">>

ProjectWord == <<"p", "r", "o", "j", "e", "c", "t">>

\* The length of a match of /\x1b\[[0-9;]*m/ at the head of s, 0 when there is none.
\* "m" is no parameter character, so the greedy run of parameters is the only candidate.
AnsiLen(s) ==
    IF Len(s) >= 3 /\ s[1] = ESC /\ s[2] = "["
    THEN LET k == CountLead(Drop(s, 2), AnsiParamChars)
         IN  IF Len(s) >= k + 3 /\ s[k + 3] = "m" THEN k + 3 ELSE 0
    ELSE 0

\* trimmed.replace(/\x1b\[[0-9;]*m/g, ""): one left-to-right pass.
RECURSIVE StripAnsi(_)
StripAnsi(s) ==
    IF s = <<>> THEN <<>>
    ELSE LET n == AnsiLen(s)
         IN  IF n > 0 THEN StripAnsi(Drop(s, n))
             ELSE <<Head(s)>> \o StripAnsi(Tail(s))

\* cleanLine.match(/^\s*(\w+)\s+a\s+\w+\s+project$/): group 1, or <<>> for null.
\* Every quantified class is followed by a character outside the class, so the
\* greedy runs are the only candidates and the match is deterministic.
projectMatch(cleanLine) ==
    LET s1 == Drop(cleanLine, CountLead(cleanLine, WhiteSpace))
        n1 == CountLead(s1, WordChars)
        s2 == Drop(s1, n1)
        w2 == CountLead(s2, WhiteSpace)
        s3 == Drop(s2, w2)
        s4 == Drop(s3, 1)
        w4 == CountLead(s4, WhiteSpace)
        s5 == Drop(s4, w4)
        n5 == CountLead(s5, WordChars)
        s6 == Drop(s5, n5)
        w6 == CountLead(s6, WhiteSpace)
        s7 == Drop(s6, w6)
    IN  IF /\ n1 >= 1
           /\ w2 >= 1
           /\ s3 # <<>>
           /\ Head(s3) = "a"
           /\ w4 >= 1
           /\ n5 >= 1
           /\ w6 >= 1
           /\ s7 = ProjectWord
        THEN Take(s1, n1)
        ELSE <<>>

\* cleanLine.match(/^\s*Project Directory:\s*(.+)$/): group 1, or <<>> for null.
\* \s* is greedy; when nothing but white space follows the label it gives one
\* character back to (.+). "." matches no line terminator.
directoryMatch(cleanLine) ==
    LET s1 == Drop(cleanLine, CountLead(cleanLine, WhiteSpace))
    IN  IF ~StartsWith(s1, ProjectDirectoryLabel) THEN <<>>
        ELSE LET rest == Drop(s1, Len(ProjectDirectoryLabel))
                 k    == CountLead(rest, WhiteSpace)
                 cap  == IF k < Len(rest) THEN Drop(rest, k)
                         ELSE IF k >= 1 THEN <<rest[k]>>
                         ELSE <<>>
             IN  IF cap # <<>> /\ \A i \in 1..Len(cap) : cap[i] \notin LineTerminators
                 THEN cap
                 ELSE <<>>

\* The "skip empty lines and headers" test on the trimmed line (440-446).
IsSkipped(trimmed) ==
    \/ trimmed = <<>>
    \/ Includes(trimmed, NoRunningBanner)
    \/ Includes(trimmed, FoundBanner)

\* One iteration of the for-loop (436-480) on the loop state
\* st = [currentProject, environments]. currentPath is assigned and reset to
\* null within the same iteration (461, 472), so it is null between iterations
\* and is not part of the loop state.
ParseLineStepNoPendingTest(st, line) ==
    LET trimmed   == Trim(line)
        cleanLine == StripAnsi(trimmed)
    IN  IF IsSkipped(trimmed) THEN st
        ELSE IF projectMatch(cleanLine) # <<>>
        THEN [st EXCEPT !.currentProject = projectMatch(cleanLine)]
        ELSE IF directoryMatch(cleanLine) # <<>>
        THEN [currentProject |-> <<>>,
              environments   |-> Append(st.environments,
                                        [name |-> st.currentProject,
                                         path |-> directoryMatch(cleanLine),
                                         raw  |-> line])]
        ELSE IF Includes(cleanLine, ProjectUrlLabel) THEN st
        ELSE st

\* The body of the for-loop dropping the pending name at a line it does not
\* recognize.
ParseLineStepSoftSkip(st, line) ==
    LET trimmed   == Trim(line)
        cleanLine == StripAnsi(trimmed)
    IN  IF IsSkipped(trimmed) THEN st
        ELSE IF projectMatch(cleanLine) # <<>>
        THEN [st EXCEPT !.currentProject = projectMatch(cleanLine)]
        ELSE IF directoryMatch(cleanLine) # <<>> /\ st.currentProject # <<>>
        THEN [currentProject |-> <<>>,
              environments   |-> Append(st.environments,
                                        [name |-> st.currentProject,
                                         path |-> directoryMatch(cleanLine),
                                         raw  |-> line])]
        ELSE IF Includes(cleanLine, ProjectUrlLabel) THEN st
        ELSE [st EXCEPT !.currentProject = <<>>]

\* The body of the for-loop (436-480).
ParseLineStep(st, line) ==
    LET trimmed   == Trim(line)
        cleanLine == StripAnsi(trimmed)
    IN  IF IsSkipped(trimmed) THEN st
        ELSE IF projectMatch(cleanLine) # <<>>
        THEN [st EXCEPT !.currentProject = projectMatch(cleanLine)]
        ELSE IF directoryMatch(cleanLine) # <<>> /\ st.currentProject # <<>>
        THEN [currentProject |-> <<>>,
              environments   |-> Append(st.environments,
                                        [name |-> st.currentProject,
                                         path |-> directoryMatch(cleanLine),
                                         raw  |-> line])]
        ELSE IF Includes(cleanLine, ProjectUrlLabel) THEN st
        ELSE st

\* The whole loop over a list of lines, from a given loop state.
RECURSIVE ParseLoop(_, _)
ParseLoop(st, ls) ==
    IF ls = <<>> THEN st ELSE ParseLoop(ParseLineStep(st, Head(ls)), Tail(ls))

\* parseEnvironmentList(output) (429-483)
parseEnvironmentList(text) ==
    ParseLoop([currentProject |-> <<>>, environments |-> <<>>], SplitLines(text)).environments

\* environments.map((env) => ({name: env.name, path: env.path})) (369-372, 499-502)
NamePath(envs) == [i \in 1..Len(envs) |-> [name |-> envs[i].name, path |-> envs[i].path]]

(***************************************************************************)
(* The parser as a machine: one step per loop iteration.                   *)
(***************************************************************************)
ParseStart ==
    /\ ppc = "start"
    /\ lines' = SplitLines(output)
    /\ lineIdx' = 1
    /\ currentProject' = <<>>
    /\ environments' = <<>>
    /\ ppc' = "loop"
    /\ UNCHANGED <<srcLines, plainOut, output, evars, cvars, rvars, ovars>>

ParseLine ==
    /\ ppc = "loop"
    /\ lineIdx <= Len(lines)
    /\ LET st == ParseLineStep([currentProject |-> currentProject,
                                environments   |-> environments], lines[lineIdx])
       IN  /\ currentProject' = st.currentProject
           /\ environments' = st.environments
    /\ lineIdx' = lineIdx + 1
    /\ UNCHANGED <<srcLines, plainOut, output, ppc, lines, evars, cvars, rvars, ovars>>

ParseReturn ==
    /\ ppc = "loop"
    /\ lineIdx > Len(lines)
    /\ ppc' = "returned"
    /\ UNCHANGED <<srcLines, plainOut, output, lines, lineIdx, currentProject, environments,
                   evars, cvars, rvars, ovars>>

ParseNext == ParseStart \/ ParseLine \/ ParseReturn

(***************************************************************************)
(* initProject: the read-modify-write pass over the .env file.             *)
(* A file's content is a sequence of tokens: a key name, "=", the pieces   *)
(* of a value, "\n". A key name is one token, so a line is a line of key K *)
(* exactly when it begins with the tokens K, "=" (the pattern ^K=.*$ with  *)
(* the m flag). Contents and values hold no "\r" and values no "\n".       *)
(***************************************************************************)
\* An argument the caller did not give.
Undefined == <<"<undefined>">>

\* A destructuring default: `name = d`.
Default(v, d) == IF v = Undefined THEN d ELSE v

TrueValue == <<"true">>

FalseValue == <<"false">>

\* enable_x ? "1" : "0", enable_x defaulting to true (891-895, 929-933)
Toggle(v) == IF Default(v, TrueValue) = TrueValue THEN <<"1">> ELSE <<"0">>

\* The object `updates` (921-934), in insertion order.
updates(args) ==
    << [key |-> "PHP_VERSION",                value |-> Default(args.php_version, <<"8.3">>)],
       [key |-> "MYSQL_DISTRIBUTION",         value |-> Default(args.mysql_distribution, <<"mariadb">>)],
       [key |-> "MYSQL_DISTRIBUTION_VERSION", value |-> Default(args.mysql_version, <<"10.6">>)],
       [key |-> "NODE_VERSION",               value |-> Default(args.node_version, <<"20">>)],
       [key |-> "COMPOSER_VERSION",           value |-> Default(args.composer_version, <<"2">>)],
       [key |-> "OPENSEARCH_VERSION",         value |-> Default(args.opensearch_version, <<"2.12">>)],
       [key |-> "REDIS_VERSION",              value |-> Default(args.redis_version, <<"7.2">>)],
       [key |-> "WARDEN_REDIS",               value |-> Toggle(args.enable_redis)],
       [key |-> "WARDEN_OPENSEARCH",          value |-> Toggle(args.enable_opensearch)],
       [key |-> "WARDEN_VARNISH",             value |-> Toggle(args.enable_varnish)],
       [key |-> "WARDEN_RABBITMQ",            value |-> Toggle(args.enable_rabbitmq)],
       [key |-> "PHP_XDEBUG_3",               value |-> Toggle(args.enable_xdebug)] >>

\* The index of the first line that ^key=.*$ matches, 0 when there is none.
RECURSIVE FirstKeyLine(_, _)
FirstKeyLine(ls, key) ==
    IF ls = <<>> THEN 0
    ELSE IF StartsWith(Head(ls), <<key, "=">>) THEN 1
    ELSE LET r == FirstKeyLine(Tail(ls), key) IN IF r = 0 THEN 0 ELSE r + 1

\* String.prototype.replace's expansion of a replacement string: $$ is "$",
\* $& the matched text, $` the text before the match, $' the text after it.
\* The pattern has no group, so $1..$99 stay as written.
RECURSIVE GetSubstitution(_, _, _, _)
GetSubstitution(replacement, matched, before, after) ==
    IF replacement = <<>> THEN <<>>
    ELSE IF Head(replacement) = "$" /\ Len(replacement) >= 2
                /\ replacement[2] \in {"$", "&", "`", "'"}
    THEN (CASE replacement[2] = "$" -> <<"$">>
            [] replacement[2] = "&" -> matched
            [] replacement[2] = "`" -> before
            [] replacement[2] = "'" -> after)
         \o GetSubstitution(Drop(replacement, 2), matched, before, after)
    ELSE <<Head(replacement)>> \o GetSubstitution(Tail(replacement), matched, before, after)

\* The body of the for-loop (937-944): the first line of the key is replaced
\* (the pattern has no g flag), or "\n" + key=value is concatenated.
UpdateEnvKey(envContentIn, key, value) ==
    LET ls  == SplitLines(envContentIn)
        idx == FirstKeyLine(ls, key)
    IN  IF idx = 0
        THEN envContentIn \o <<"\n", key, "=">> \o value
        ELSE LET before == IF idx = 1 THEN <<>>
                           ELSE JoinLines(Take(ls, idx - 1)) \o <<"\n">>
                 after  == IF idx = Len(ls) THEN <<>>
                           ELSE <<"\n">> \o JoinLines(Drop(ls, idx))
             IN  before
                 \o GetSubstitution(<<key, "=">> \o value, ls[idx], before, after)
                 \o after

\* The whole loop (937-944) over the entries of `updates` from index i on.
RECURSIVE UpdateEnv(_, _, _)
UpdateEnv(envContentIn, ups, i) ==
    IF i > Len(ups) THEN envContentIn
    ELSE UpdateEnv(UpdateEnvKey(envContentIn, ups[i].key, ups[i].value), ups, i + 1)

(***************************************************************************)
(* The pass as a machine: the read, one step per key, the write.           *)
(***************************************************************************)
EnvRead ==
    /\ epc = "read"
    /\ envContentVar' = envFileNow
    /\ keyIdx' = 1
    /\ epc' = "update"
    /\ UNCHANGED <<envArgs, envBefore, envFileNow, pvars, cvars, rvars, ovars>>

EnvUpdateKey ==
    /\ epc = "update"
    /\ keyIdx <= Len(updates(envArgs))
    /\ envContentVar' = UpdateEnvKey(envContentVar, updates(envArgs)[keyIdx].key,
                                     updates(envArgs)[keyIdx].value)
    /\ keyIdx' = keyIdx + 1
    /\ UNCHANGED <<epc, envArgs, envBefore, envFileNow, pvars, cvars, rvars, ovars>>

EnvWrite ==
    /\ epc = "update"
    /\ keyIdx > Len(updates(envArgs))
    /\ envFileNow' = envContentVar
    /\ epc' = "written"
    /\ UNCHANGED <<envArgs, envBefore, envContentVar, keyIdx, pvars, cvars, rvars, ovars>>

EnvNext == EnvRead \/ EnvUpdateKey \/ EnvWrite

(***************************************************************************)
(* Tool calls. A string argument is a sequence of tokens (words, " ",      *)
(* "/"); an argument vector is a sequence of such strings.                 *)
(***************************************************************************)
\* process.cwd()
Cwd == <<"/", "w">>

\* JavaScript's !x for a string or undefined.
Falsy(x) == x = Undefined \/ x = <<>>

\* x || placeholder
OrElse(x, placeholder) == IF Falsy(x) THEN placeholder ELSE x

\* project_path.replace(/\/+$/, "")
RECURSIVE StripTrailingSlashes(_)
StripTrailingSlashes(p) ==
    IF p # <<>> /\ p[Len(p)] = "/" THEN StripTrailingSlashes(Take(p, Len(p) - 1)) ELSE p

\* path.resolve(p), for paths without ".", ".." or doubled separators inside:
\* an absolute path loses its trailing separators, the empty path is the
\* working directory, a relative path is appended to the working directory.
resolve(p) ==
    LET q == StripTrailingSlashes(p)
    IN  IF p = <<>> THEN Cwd
        ELSE IF Head(p) = "/" THEN (IF q = <<>> THEN <<"/">> ELSE q)
        ELSE Cwd \o <<"/">> \o q

\* The length of the longest prefix of s made of characters outside cls.
RECURSIVE CountLeadNot(_, _)
CountLeadNot(s, cls) ==
    IF s # <<>> /\ Head(s) \notin cls THEN 1 + CountLeadNot(Tail(s), cls) ELSE 0

\* s.split(/\s+/) for a trimmed s: the runs between the white space; [""] for "".
RECURSIVE SplitWhiteSpace(_)
SplitWhiteSpace(s) ==
    LET n == CountLeadNot(s, WhiteSpace)
        rest == Drop(s, n)
    IN  IF rest = <<>> THEN <<Take(s, n)>>
        ELSE <<Take(s, n)>> \o SplitWhiteSpace(Drop(rest, CountLead(rest, WhiteSpace)))

\* String.prototype.toLowerCase, on the words the modelled outputs hold.
ToLowerCase(s) ==
    [i \in 1..Len(s) |->
        CASE s[i] = "Composer" -> "composer"
          [] s[i] = "COMPOSER" -> "composer"
          [] s[i] = "Version"  -> "version"
          [] OTHER -> s[i]]

\* versionCheckResult.stdout.toLowerCase().includes("composer version 2") (772-773)
HasVersion2Marker(stdout) ==
    Includes(ToLowerCase(stdout), <<"composer", " ", "version", " ", "2">>)

\* A fixed word of an argument vector.
Lit(w) == <<w>>

\* ...list: the words of a list argument, spread into an argument vector.
Words(list) == [i \in 1..Len(list) |-> Lit(list[i])]

(***************************************************************************)
(* What a call holds, and what a handler does next.                        *)
(***************************************************************************)
NoOutcome ==
    [kind |-> "none", isError |-> FALSE, template |-> "", code |-> <<>>,
     stdout |-> <<>>, stderr |-> <<>>, message |-> <<>>, environments |-> <<>>]

\* A ResponseEnvelope: isError, and the pieces its text is assembled from.
Envelope(isError, template, code, stdout, stderr, message, envs) ==
    [kind |-> "envelope", isError |-> isError, template |-> template, code |-> code,
     stdout |-> stdout, stderr |-> stderr, message |-> message, environments |-> envs]

\* An error that leaves the request handler.
Raised(name, message) ==
    [kind |-> "raised", isError |-> FALSE, template |-> name, code |-> <<>>,
     stdout |-> <<>>, stderr |-> <<>>, message |-> message, environments |-> <<>>]

NoWrite == [dir |-> <<>>, content |-> <<>>, doIt |-> FALSE]

\* The handler awaits executeCommand("warden", argv, cwd).
SpawnStep(argv, cwd, stage, composerCommand, mkdir) ==
    [act |-> "spawn", argv |-> argv, cwd |-> cwd, stage |-> stage,
     composerCommand |-> composerCommand, mkdir |-> mkdir, write |-> NoWrite,
     caught |-> FALSE, outcome |-> NoOutcome]

\* The handler returns an envelope.
ReturnStep(envelope, caught, write) ==
    [act |-> "end", argv |-> <<>>, cwd |-> <<>>, stage |-> "", composerCommand |-> "",
     mkdir |-> {}, write |-> write, caught |-> caught, outcome |-> envelope]

\* The handler throws and nothing catches it.
RaiseStep(name, message) ==
    [act |-> "end", argv |-> <<>>, cwd |-> <<>>, stage |-> "", composerCommand |-> "",
     mkdir |-> {}, write |-> NoWrite, caught |-> FALSE, outcome |-> Raised(name, message)]

\* What executeCommand's promise settles with (971-1002): on 'close' it
\* resolves with {stdout, stderr, code}; on 'error' it rejects with an error
\* that carries the message and the stdout and stderr captured so far.
Resolved(stdout, stderr, code) ==
    [settled |-> "resolved", stdout |-> stdout, stderr |-> stderr, code |-> code,
     message |-> <<>>]

Rejected(stdout, stderr) ==
    [settled |-> "rejected", stdout |-> stdout, stderr |-> stderr, code |-> 0,
     message |-> <<"Failed to spawn command: ", "spawn warden ENOENT">>]

(***************************************************************************)
(* executeCommand (971-1002), event by event. spawn reports a failure to   *)
(* start the child through the child's 'error' event, which 'close'        *)
(* follows; a started child emits data on its streams and then 'close'.    *)
(* The streams exist in both cases, and data is allowed on them until      *)
(* 'close'.                                                                *)
(***************************************************************************)
MaxChunks == 2

\* Exit codes run from 0 to MaxExit.
MaxExit == 1

Chunks == {<<"a">>, <<"b">>}

\* errno of a failed spawn, the code 'close' then carries.
SpawnErrno == 0 - 2

\* new Promise(...) before resolve or reject was called.
PendingPromise ==
    [settled |-> "pending", stdout |-> <<>>, stderr |-> <<>>, code |-> 0, message |-> <<>>]

\* resolve(v) and reject(v) (972): once the promise is settled they do nothing.
SettleAgain(p, v) == v

Settle(p, v) == IF p.settled = "pending" THEN v ELSE p

\* The 'close' handler's argument of resolve (989-991), a rejection when the
\* code is not 0.
OnCloseValueFailing(out, err, code) ==
    IF code # 0 THEN Rejected(out, err) ELSE Resolved(out, err, code)

\* The 'close' handler's argument of resolve (989-991).
OnCloseValue(out, err, code) == Resolved(out, err, code)

\* The 'error' handler's argument of reject (993-1000).
OnErrorValue(out, err) == Rejected(out, err)

RunnerOff ==
    /\ child = "none"
    /\ spawnFailed = FALSE
    /\ exitCode = <<>>
    /\ rstdout = <<>>
    /\ rstderr = <<>>
    /\ promise = PendingPromise
    /\ settleCalls = 0
    /\ received = PendingPromise

\* spawn(command, args, {cwd, stdio}) (973-976)
RunnerSpawn ==
    /\ child = "none"
    /\ \E failed \in BOOLEAN :
         /\ spawnFailed' = failed
         /\ child' = IF failed THEN "failed" ELSE "running"
    /\ UNCHANGED <<exitCode, rstdout, rstderr, promise, settleCalls, received,
                   pvars, evars, cvars, ovars>>

\* childProcess.stdout.on("data") (981-983)
OnStdoutData ==
    /\ child \in {"running", "failed", "errored"}
    /\ Len(rstdout) + Len(rstderr) < MaxChunks
    /\ \E d \in Chunks : rstdout' = rstdout \o d
    /\ UNCHANGED <<child, spawnFailed, exitCode, rstderr, promise, settleCalls, received,
                   pvars, evars, cvars, ovars>>

\* childProcess.stderr.on("data") (985-987)
OnStderrData ==
    /\ child \in {"running", "failed", "errored"}
    /\ Len(rstdout) + Len(rstderr) < MaxChunks
    /\ \E d \in Chunks : rstderr' = rstderr \o d
    /\ UNCHANGED <<child, spawnFailed, exitCode, rstdout, promise, settleCalls, received,
                   pvars, evars, cvars, ovars>>

\* childProcess.on("error") (993-1000): only a child that could not be started.
OnError ==
    /\ child = "failed"
    /\ child' = "errored"
    /\ promise' = Settle(promise, OnErrorValue(rstdout, rstderr))
    /\ settleCalls' = settleCalls + 1
    /\ UNCHANGED <<spawnFailed, exitCode, rstdout, rstderr, received, pvars, evars, cvars, ovars>>

\* childProcess.on("close") (989-991): a started child with its exit code, a
\* child that could not be started with the errno, after its 'error'.
OnClose ==
    /\ child \in {"running", "errored"}
    /\ \E code \in (IF child = "running" THEN 0..MaxExit ELSE {SpawnErrno}) :
         /\ exitCode' = <<code>>
         /\ promise' = Settle(promise, OnCloseValue(rstdout, rstderr, code))
    /\ child' = "closed"
    /\ settleCalls' = settleCalls + 1
    /\ UNCHANGED <<spawnFailed, rstdout, rstderr, received, pvars, evars, cvars, ovars>>

\* The caller's await gets the settled promise's value or reason.
AwaitSettled ==
    /\ promise.settled # "pending"
    /\ received.settled = "pending"
    /\ received' = promise
    /\ UNCHANGED <<child, spawnFailed, exitCode, rstdout, rstderr, promise, settleCalls,
                   pvars, evars, cvars, ovars>>

RunnerNext ==
    RunnerSpawn \/ OnStdoutData \/ OnStderrData \/ OnError \/ OnClose \/ AwaitSettled

NoOutput == <<"(no output)">>

NoErrors == <<"(no errors)">>

\* A handler that destructures `args` when the request carried no arguments.
NoArgumentsError == RaiseStep("TypeError", <<"Cannot destructure property of undefined">>)

(***************************************************************************)
(* executeWardenCommand (831-876)                                          *)
(***************************************************************************)
\* Up to the await of executeCommand (832-850).
executeWardenCommand(project_path, wardenArgs, existing) ==
    IF Falsy(project_path)
    THEN RaiseStep("Error", <<"project_path is required">>)
    ELSE LET absoluteProjectPath == resolve(StripTrailingSlashes(project_path))
         IN  IF absoluteProjectPath \notin existing
             THEN RaiseStep("Error", <<"Project directory does not exist: ">>
                                     \o absoluteProjectPath)
             ELSE SpawnStep(wardenArgs, absoluteProjectPath, "main", "", {})

\* isError: !isSuccess (862), written the other way round.
executeWardenCommandSettledFlipped(r) ==
    IF r.settled = "resolved"
    THEN ReturnStep(Envelope(r.code = 0, "command", <<r.code>>,
                             OrElse(r.stdout, NoOutput), OrElse(r.stderr, NoErrors),
                             <<>>, <<>>), FALSE, NoWrite)
    ELSE ReturnStep(Envelope(TRUE, "command_threw", <<>>,
                             OrElse(r.stdout, NoOutput), OrElse(r.stderr, NoErrors),
                             r.message, <<>>), TRUE, NoWrite)

\* From the settled promise to the return (852-875).
executeWardenCommandSettled(r) ==
    IF r.settled = "resolved"
    THEN ReturnStep(Envelope(r.code # 0, "command", <<r.code>>,
                             OrElse(r.stdout, NoOutput), OrElse(r.stderr, NoErrors),
                             <<>>, <<>>), FALSE, NoWrite)
    ELSE ReturnStep(Envelope(TRUE, "command_threw", <<>>,
                             OrElse(r.stdout, NoOutput), OrElse(r.stderr, NoErrors),
                             r.message, <<>>), TRUE, NoWrite)

(***************************************************************************)
(* The formatters that only build an argument vector (511-610)             *)
(***************************************************************************)
LifecycleTools ==
    {"warden_start_project", "warden_stop_project", "warden_start_svc", "warden_stop_svc"}

\* startProject, stopProject, startSvc, stopSvc (511-545)
LifecycleArgs(tool) ==
    CASE tool = "warden_start_project" -> <<Lit("env"), Lit("up")>>
      [] tool = "warden_stop_project"  -> <<Lit("env"), Lit("down")>>
      [] tool = "warden_start_svc"     -> <<Lit("svc"), Lit("up")>>
      [] tool = "warden_stop_svc"      -> <<Lit("svc"), Lit("down")>>

\* runDbQuery's wardenCommand (548-562) with the query split at white space.
DbQueryArgsSplit(args) ==
    <<Lit("env"), Lit("exec"), Lit("-T"), Lit("db"), Lit("mysql"), Lit("-u"),
      Lit("root"), Lit("-pmagento"), Default(args.database, <<"magento">>), Lit("-e")>>
    \o SplitWhiteSpace(Trim(Default(args.query, <<>>)))

\* runDbQuery's wardenCommand (548-562)
DbQueryArgs(args) ==
    <<Lit("env"), Lit("exec"), Lit("-T"), Lit("db"), Lit("mysql"), Lit("-u"),
      Lit("root"), Lit("-pmagento"), Default(args.database, <<"magento">>),
      Lit("-e"), args.query>>

\* runPhpScript's wardenCommand (572-582)
PhpScriptArgs(args) ==
    <<Lit("env"), Lit("exec"), Lit("-T"), Lit("php-fpm"), Lit("php"), args.script_path>>
    \o Words(Default(args.args, <<>>))

\* runMagentoCli's wardenCommand (592-603)
MagentoCliArgs(args) ==
    <<Lit("env"), Lit("exec"), Lit("-T"), Lit("php-fpm"), Lit("php"), Lit("bin/magento"),
      args.command>>
    \o Words(Default(args.args, <<>>))

(***************************************************************************)
(* runUnitTests (612-700)                                                  *)
(***************************************************************************)
\* runUnitTests (613-676) with the two existsSync tests in the other order.
runUnitTestsPlainFirst(args, files) ==
    LET config_file == Default(args.config_file, <<>>)
        test_path   == Default(args.test_path, <<>>)
        extra_args  == Default(args.extra_args, <<>>)
    IN  IF args.project_path = Undefined
        THEN RaiseStep("TypeError", <<"Cannot read properties of undefined (reading 'replace')">>)
        ELSE LET absoluteProjectPath == resolve(StripTrailingSlashes(args.project_path))
                 actualConfigFile ==
                     IF ~Falsy(config_file) THEN config_file
                     ELSE IF <<absoluteProjectPath, "phpunit.xml">> \in files
                     THEN <<"phpunit.xml">>
                     ELSE IF <<absoluteProjectPath, "phpunit.xml.dist">> \in files
                     THEN <<"phpunit.xml.dist">>
                     ELSE <<>>
                 wardenCommand ==
                     <<Lit("env"), Lit("exec"), Lit("-T"), Lit("php-fpm"), Lit("php"),
                       Lit("vendor/phpunit/phpunit/phpunit"), Lit("-c"), actualConfigFile>>
                     \o (IF ~Falsy(test_path) /\ Trim(test_path) # <<>>
                         THEN <<test_path>> ELSE <<>>)
                     \o Words(extra_args)
             IN  IF actualConfigFile = <<>>
                 THEN RaiseStep("Error", <<"No PHPUnit configuration file found">>)
                 ELSE SpawnStep(wardenCommand, absoluteProjectPath, "main", "", {})

\* Up to the await of executeCommand (613-676). project_path.replace throws a
\* TypeError when project_path is undefined (623, or 659 with a config file).
runUnitTests(args, files) ==
    LET config_file == Default(args.config_file, <<>>)
        test_path   == Default(args.test_path, <<>>)
        extra_args  == Default(args.extra_args, <<>>)
    IN  IF args.project_path = Undefined
        THEN RaiseStep("TypeError", <<"Cannot read properties of undefined (reading 'replace')">>)
        ELSE LET absoluteProjectPath == resolve(StripTrailingSlashes(args.project_path))
                 actualConfigFile ==
                     IF ~Falsy(config_file) THEN config_file
                     ELSE IF <<absoluteProjectPath, "phpunit.xml.dist">> \in files
                     THEN <<"phpunit.xml.dist">>
                     ELSE IF <<absoluteProjectPath, "phpunit.xml">> \in files
                     THEN <<"phpunit.xml">>
                     ELSE <<>>
                 wardenCommand ==
                     <<Lit("env"), Lit("exec"), Lit("-T"), Lit("php-fpm"), Lit("php"),
                       Lit("vendor/phpunit/phpunit/phpunit"), Lit("-c"), actualConfigFile>>
                     \o (IF ~Falsy(test_path) /\ Trim(test_path) # <<>>
                         THEN <<test_path>> ELSE <<>>)
                     \o Words(extra_args)
             IN  IF actualConfigFile = <<>>
                 THEN RaiseStep("Error", <<"No PHPUnit configuration file found">>)
                 ELSE SpawnStep(wardenCommand, absoluteProjectPath, "main", "", {})

\* From the settled promise to the return (678-699).
runUnitTestsSettled(r) ==
    IF r.settled = "resolved"
    THEN ReturnStep(Envelope(r.code # 0, "phpunit", <<r.code>>,
                             OrElse(r.stdout, NoOutput), OrElse(r.stderr, NoErrors),
                             <<>>, <<>>), FALSE, NoWrite)
    ELSE ReturnStep(Envelope(TRUE, "phpunit_threw", <<>>,
                             OrElse(r.stdout, NoOutput), OrElse(r.stderr, NoErrors),
                             r.message, <<>>), TRUE, NoWrite)

(***************************************************************************)
(* runComposer (702-829)                                                   *)
(***************************************************************************)
ProbeArgs(what) ==
    <<Lit("env"), Lit("exec"), Lit("-T"), Lit("php-fpm"), Lit("which"), Lit(what)>>

VersionArgs ==
    <<Lit("env"), Lit("exec"), Lit("-T"), Lit("php-fpm"), Lit("composer"), Lit("--version")>>

\* wardenCommand (789-797)
ComposerArgs(composerCommand, command) ==
    <<Lit("env"), Lit("exec"), Lit("-T"), Lit("php-fpm"), Lit(composerCommand)>>
    \o SplitWhiteSpace(Trim(command))

\* Up to the first await (703-728).
runComposer(args, existing) ==
    IF Falsy(args.project_path)
    THEN RaiseStep("Error", <<"project_path is required">>)
    ELSE IF Falsy(args.command)
    THEN RaiseStep("Error", <<"command is required">>)
    ELSE LET absoluteProjectPath == resolve(StripTrailingSlashes(args.project_path))
         IN  IF absoluteProjectPath \notin existing
             THEN RaiseStep("Error", <<"Project directory does not exist: ">>
                                     \o absoluteProjectPath)
             ELSE SpawnStep(ProbeArgs("composer2"), absoluteProjectPath, "composer2", "", {})

\* The catch block (817-828) without the failure's message in the text.
runComposerCatchSilent(r) ==
    ReturnStep(Envelope(TRUE, "composer_threw", <<>>,
                        OrElse(r.stdout, NoOutput), OrElse(r.stderr, NoErrors),
                        <<>>, <<>>), TRUE, NoWrite)

\* The catch block (817-828).
runComposerCatch(r) ==
    ReturnStep(Envelope(TRUE, "composer_threw", <<>>,
                        OrElse(r.stdout, NoOutput), OrElse(r.stderr, NoErrors),
                        r.message, <<>>), TRUE, NoWrite)

\* The version probe's outcome (759-786) with the version-2 test left out.
runComposerVersionUnchecked(c, r) ==
    IF r.code # 0
    THEN ReturnStep(Envelope(TRUE, "composer_version_failed", <<>>, <<>>, r.stderr,
                             <<>>, <<>>), FALSE, NoWrite)
    ELSE SpawnStep(ComposerArgs("composer", c.args.command), c.cwd, "main", "composer", {})

\* The version probe's outcome (759-786).
runComposerVersion(c, r) ==
    IF r.code # 0
    THEN ReturnStep(Envelope(TRUE, "composer_version_failed", <<>>, <<>>, r.stderr,
                             <<>>, <<>>), FALSE, NoWrite)
    ELSE IF ~HasVersion2Marker(r.stdout)
    THEN ReturnStep(Envelope(TRUE, "composer_v2_required", <<>>, Trim(r.stdout), <<>>,
                             <<>>, <<>>), FALSE, NoWrite)
    ELSE SpawnStep(ComposerArgs("composer", c.args.command), c.cwd, "main", "composer", {})

\* The requested subcommand's outcome (805-816), run again when it failed.
runComposerMainRetried(c, r) ==
    IF r.code # 0
    THEN SpawnStep(ComposerArgs(c.composerCommand, c.args.command), c.cwd, "main",
                   c.composerCommand, {})
    ELSE ReturnStep(Envelope(FALSE, "composer", <<r.code>>,
                             OrElse(r.stdout, NoOutput), OrElse(r.stderr, NoErrors),
                             <<>>, <<>>), FALSE, NoWrite)

\* The requested subcommand's outcome (805-816).
runComposerMain(c, r) ==
    ReturnStep(Envelope(r.code # 0, "composer", <<r.code>>,
                        OrElse(r.stdout, NoOutput), OrElse(r.stderr, NoErrors),
                        <<>>, <<>>), FALSE, NoWrite)

\* runComposer (730-828) going from a found `composer` straight to the
\* requested subcommand.
runComposerSettledWithoutVersion(c, r) ==
    IF r.settled = "rejected" THEN runComposerCatch(r)
    ELSE CASE c.stage = "composer2" ->
                IF r.code # 0
                THEN SpawnStep(ProbeArgs("composer"), c.cwd, "composer", "composer2", {})
                ELSE SpawnStep(ComposerArgs("composer2", c.args.command), c.cwd, "main",
                               "composer2", {})
           [] c.stage = "composer" ->
                IF r.code # 0
                THEN ReturnStep(Envelope(TRUE, "composer_not_found", <<>>, <<>>, <<>>,
                                         <<>>, <<>>), FALSE, NoWrite)
                ELSE SpawnStep(ComposerArgs("composer", c.args.command), c.cwd, "main",
                               "composer", {})
           [] c.stage = "version" -> runComposerVersion(c, r)
           [] c.stage = "main" -> runComposerMain(c, r)

\* From one settled promise to the next await or the return (730-828).
runComposerSettled(c, r) ==
    IF r.settled = "rejected" THEN runComposerCatch(r)
    ELSE CASE c.stage = "composer2" ->
                IF r.code # 0
                THEN SpawnStep(ProbeArgs("composer"), c.cwd, "composer", "composer2", {})
                ELSE SpawnStep(ComposerArgs("composer2", c.args.command), c.cwd, "main",
                               "composer2", {})
           [] c.stage = "composer" ->
                IF r.code # 0
                THEN ReturnStep(Envelope(TRUE, "composer_not_found", <<>>, <<>>, <<>>,
                                         <<>>, <<>>), FALSE, NoWrite)
                ELSE SpawnStep(VersionArgs, c.cwd, "version", "composer2", {})
           [] c.stage = "version" -> runComposerVersion(c, r)
           [] c.stage = "main" -> runComposerMain(c, r)

(***************************************************************************)
(* initProject (878-969)                                                   *)
(***************************************************************************)
\* Up to the await of executeCommand (879-908). Without arguments the
\* destructuring throws inside the try block and the catch block throws again
\* on args.project_path (963). resolve(undefined) throws inside the try block.
\* execSync's mkdir -p is taken to succeed.
initProject(args) ==
    IF ~args.defined THEN NoArgumentsError
    ELSE IF args.project_path = Undefined
    THEN ReturnStep(Envelope(TRUE, "init_failed", <<>>, NoOutput, NoErrors,
                             <<"The \"paths[0]\" argument must be of type string">>, <<>>),
                    TRUE, NoWrite)
    ELSE SpawnStep(<<Lit("env"), Lit("init"), args.project_name,
                     Default(args.environment_type, <<"magento2">>)>>,
                   resolve(args.project_path), "main", "", {resolve(args.project_path)})

\* initProject (910-968) running `env init` a second time when the first
\* exited with a non-zero code.
initProjectSettledRetried(c, r, withEnv, contentOf) ==
    IF r.settled = "rejected"
    THEN ReturnStep(Envelope(TRUE, "init_failed", <<>>,
                             OrElse(r.stdout, NoOutput), OrElse(r.stderr, NoErrors),
                             r.message, <<>>), TRUE, NoWrite)
    ELSE IF r.code # 0 /\ c.results = <<>>
    THEN SpawnStep(c.runs[1].argv, c.cwd, "main", "", {})
    ELSE IF r.code # 0
    THEN ReturnStep(Envelope(TRUE, "init_failed", <<>>, NoOutput, NoErrors,
                             <<"Warden init failed: ">> \o r.stderr, <<>>), TRUE, NoWrite)
    ELSE ReturnStep(Envelope(FALSE, "init_ok", <<>>, r.stdout, <<>>, <<>>, <<>>), FALSE,
                    IF c.cwd \in withEnv
                    THEN [dir |-> c.cwd, doIt |-> TRUE,
                          content |-> UpdateEnv(contentOf[c.cwd], updates(c.args), 1)]
                    ELSE NoWrite)

\* initProject (910-968) with the .env pass placed before the test of the
\* exit code.
initProjectSettledPassFirst(c, r, withEnv, contentOf) ==
    IF r.settled = "rejected"
    THEN ReturnStep(Envelope(TRUE, "init_failed", <<>>,
                             OrElse(r.stdout, NoOutput), OrElse(r.stderr, NoErrors),
                             r.message, <<>>), TRUE, NoWrite)
    ELSE ReturnStep(IF r.code # 0
                    THEN Envelope(TRUE, "init_failed", <<>>, NoOutput, NoErrors,
                                  <<"Warden init failed: ">> \o r.stderr, <<>>)
                    ELSE Envelope(FALSE, "init_ok", <<>>, r.stdout, <<>>, <<>>, <<>>),
                    r.code # 0,
                    IF c.cwd \in withEnv
                    THEN [dir |-> c.cwd, doIt |-> TRUE,
                          content |-> UpdateEnv(contentOf[c.cwd], updates(c.args), 1)]
                    ELSE NoWrite)

\* From the settled promise to the return (910-968). readFileSync and
\* writeFileSync are taken to succeed.
initProjectSettled(c, r, withEnv, contentOf) ==
    IF r.settled = "rejected"
    THEN ReturnStep(Envelope(TRUE, "init_failed", <<>>,
                             OrElse(r.stdout, NoOutput), OrElse(r.stderr, NoErrors),
                             r.message, <<>>), TRUE, NoWrite)
    ELSE IF r.code # 0
    THEN ReturnStep(Envelope(TRUE, "init_failed", <<>>, NoOutput, NoErrors,
                             <<"Warden init failed: ">> \o r.stderr, <<>>), TRUE, NoWrite)
    ELSE ReturnStep(Envelope(FALSE, "init_ok", <<>>, r.stdout, <<>>, <<>>, <<>>), FALSE,
                    IF c.cwd \in withEnv
                    THEN [dir |-> c.cwd, doIt |-> TRUE,
                          content |-> UpdateEnv(contentOf[c.cwd], updates(c.args), 1)]
                    ELSE NoWrite)

(***************************************************************************)
(* listEnvironments (349-427)                                              *)
(***************************************************************************)
listEnvironments == SpawnStep(<<Lit("status")>>, Cwd, "main", "", {})

listEnvironmentsSettled(r) ==
    IF r.settled = "rejected"
    THEN ReturnStep(Envelope(TRUE, "list_threw", <<-1>>, OrElse(r.stdout, <<>>),
                             OrElse(r.stderr, <<>>), r.message, <<>>), TRUE, NoWrite)
    ELSE IF r.code = 0
    THEN ReturnStep(Envelope(FALSE, "list_ok", <<r.code>>, r.stdout, <<>>, <<>>,
                             NamePath(parseEnvironmentList(r.stdout))), FALSE, NoWrite)
    ELSE ReturnStep(Envelope(TRUE, "list_failed", <<r.code>>, r.stdout,
                             OrElse(r.stderr, <<"Unknown error">>), <<>>, <<>>),
                    FALSE, NoWrite)

(***************************************************************************)
(* The request handler (319-346)                                           *)
(***************************************************************************)
Catalog ==
    {"warden_list_environments", "warden_db_query", "warden_php_script",
     "warden_magento_cli", "warden_run_unit_tests", "warden_composer",
     "warden_init_project"} \cup LifecycleTools

\* The switch, and the chosen handler up to its first await, return or throw.
CallTool(tool, args, existing, files) ==
    IF tool = "warden_list_environments" THEN listEnvironments
    ELSE IF tool \notin Catalog THEN RaiseStep("Error", <<"Unknown tool: ", tool>>)
    ELSE IF tool = "warden_init_project" THEN initProject(args)
    ELSE IF ~args.defined THEN NoArgumentsError
    ELSE CASE tool \in LifecycleTools ->
                executeWardenCommand(args.project_path, LifecycleArgs(tool), existing)
           [] tool = "warden_db_query" ->
                executeWardenCommand(args.project_path, DbQueryArgs(args), existing)
           [] tool = "warden_php_script" ->
                executeWardenCommand(args.project_path, PhpScriptArgs(args), existing)
           [] tool = "warden_magento_cli" ->
                executeWardenCommand(args.project_path, MagentoCliArgs(args), existing)
           [] tool = "warden_run_unit_tests" -> runUnitTests(args, files)
           [] tool = "warden_composer" -> runComposer(args, existing)

\* The awaiting handler, resumed with what the promise settled with.
Settled(c, r, withEnv, contentOf) ==
    CASE c.tool = "warden_list_environments" -> listEnvironmentsSettled(r)
      [] c.tool = "warden_run_unit_tests" -> runUnitTestsSettled(r)
      [] c.tool = "warden_composer" -> runComposerSettled(c, r)
      [] c.tool = "warden_init_project" -> initProjectSettled(c, r, withEnv, contentOf)
      [] OTHER -> executeWardenCommandSettled(r)

(***************************************************************************)
(* Requests: the tool names and the arguments the calls are drawn from.    *)
(***************************************************************************)
\* request.params.arguments with no property set.
BaseArgs ==
    [defined |-> TRUE, project_path |-> Undefined, query |-> Undefined,
     database |-> Undefined, script_path |-> Undefined, args |-> Undefined,
     command |-> Undefined, config_file |-> Undefined, test_path |-> Undefined,
     extra_args |-> Undefined, project_name |-> Undefined,
     environment_type |-> Undefined, php_version |-> Undefined,
     mysql_distribution |-> Undefined, mysql_version |-> Undefined,
     node_version |-> Undefined, composer_version |-> Undefined,
     opensearch_version |-> Undefined, redis_version |-> Undefined,
     enable_redis |-> Undefined, enable_opensearch |-> Undefined,
     enable_varnish |-> Undefined, enable_rabbitmq |-> Undefined,
     enable_xdebug |-> Undefined]

\* A request without params.arguments.
NoArgs == [BaseArgs EXCEPT !.defined = FALSE]

DirP == <<"/", "p">>

DirQ == <<"/", "q">>

\* Absent, empty, an existing directory (with and without a trailing
\* separator), a directory that does not exist.
PathArgs == {Undefined, <<>>, DirP, DirP \o <<"/">>, DirQ}

WithPath == { [BaseArgs EXCEPT !.project_path = p] : p \in PathArgs }

\* A list argument: absent, or a list of one-token words.
ListOfWords == {Undefined, <<"-v">>}

UnknownTool == "warden_unknown"

ArgsFor(tool) ==
    CASE tool \in LifecycleTools -> {NoArgs} \cup WithPath
      [] tool = "warden_db_query" ->
           { [a EXCEPT !.query = q, !.database = d] :
               a \in WithPath, q \in {Undefined, <<"SELECT", " ", "1">>},
               d \in {Undefined, <<"shop">>} }
      [] tool = "warden_php_script" ->
           { [a EXCEPT !.script_path = f, !.args = l] :
               a \in WithPath, f \in {Undefined, <<"a.php">>}, l \in ListOfWords }
      [] tool = "warden_magento_cli" ->
           { [a EXCEPT !.command = c, !.args = l] :
               a \in WithPath, c \in {Undefined, <<"cache:flush">>}, l \in ListOfWords }
      [] tool = "warden_run_unit_tests" ->
           {NoArgs} \cup
           { [a EXCEPT !.config_file = f, !.test_path = t, !.extra_args = l] :
               a \in WithPath, f \in {Undefined, <<>>, <<"my.xml">>},
               t \in {Undefined, <<" ">>, <<"tests">>}, l \in ListOfWords }
      [] tool = "warden_composer" ->
           {NoArgs} \cup
           { [a EXCEPT !.command = c] :
               a \in WithPath,
               c \in {Undefined, <<>>, <<" ", "require", " ", "x", " ">>} }
      [] tool = "warden_init_project" ->
           {NoArgs} \cup
           { [BaseArgs EXCEPT !.project_path = p, !.project_name = n, !.php_version = v] :
               p \in {Undefined, DirP, DirQ}, n \in {Undefined, <<"shop">>},
               v \in {Undefined, <<"8.2">>} }
      [] OTHER -> {NoArgs, BaseArgs}

(***************************************************************************)
(* What the runner's child processes print and how they exit.              *)
(***************************************************************************)
VersionTwo == <<"Composer", " ", "version", " ", "2", ".", "7">>

VersionOne == <<"Composer", " ", "version", " ", "1", ".", "10", "\n">>

StatusText ==
    <<"s", "1", " ", "a", " ", "m", "2", " ", "p", "r", "o", "j", "e", "c", "t", "\n",
      "P", "r", "o", "j", "e", "c", "t", " ", "D", "i", "r", "e", "c", "t", "o", "r", "y",
      ":", " ", "/", "p">>

Stdouts(tool) ==
    IF tool = "warden_list_environments" THEN {<<>>, StatusText}
    ELSE {<<>>, VersionTwo, VersionOne}

Stderrs == {<<>>, <<"boom">>}

\* The .env file that `warden env init` leaves in a fresh project directory.
TemplateEnv ==
    <<"WARDEN_ENV_NAME", "=", "shop", "\n", "PHP_VERSION", "=", "8.1", "\n",
      "WARDEN_REDIS", "=", "1">>

(***************************************************************************)
(* One tool call at a time: the request handler runs to its first await,   *)
(* the runner's promise settles, the handler runs on, the result is sent.  *)
(***************************************************************************)
MaxCalls == 2

IdleCall ==
    [pc |-> "idle", tool |-> "", args |-> NoArgs, stage |-> "", composerCommand |-> "",
     cwd |-> <<>>, runs |-> <<>>, results |-> <<>>, caught |-> FALSE,
     outcome |-> NoOutcome]

\* The call after the handler's step: awaiting one more run of the runner,
\* or finished with what it returned or threw.
AfterStep(c, step) ==
    IF step.act = "spawn"
    THEN [c EXCEPT !.pc = "await", !.stage = step.stage,
                   !.composerCommand = step.composerCommand, !.cwd = step.cwd,
                   !.runs = Append(@, [argv |-> step.argv, cwd |-> step.cwd,
                                       stage |-> step.stage])]
    ELSE [c EXCEPT !.pc = "done", !.caught = step.caught, !.outcome = step.outcome]

\* A CallToolRequest arrives (319-346).
Dispatch ==
    /\ call.pc = "idle"
    /\ nCalls < MaxCalls
    /\ \E tool \in Catalog \cup {UnknownTool} :
         \E args \in ArgsFor(tool) :
           LET step == CallTool(tool, args, dirs, phpunitFiles)
           IN  /\ call' = AfterStep([IdleCall EXCEPT !.tool = tool, !.args = args], step)
               /\ dirs' = dirs \cup step.mkdir
    /\ nCalls' = nCalls + 1
    /\ UNCHANGED <<phpunitFiles, envExists, envContent, pvars, evars, rvars, ovars>>

\* The files after the handler's step: writeFileSync(envFilePath, envContent).
WriteEnv(contentOf, write) ==
    IF write.doIt THEN [contentOf EXCEPT ![write.dir] = write.content] ELSE contentOf

\* The child closes (989-991): the promise resolves and the handler runs on.
\* A successful `env init` may have created the project's .env file.
RunnerResolves ==
    /\ call.pc = "await"
    /\ \E stdout \in Stdouts(call.tool), stderr \in Stderrs, code \in 0..MaxExit,
          created \in BOOLEAN :
         LET r == Resolved(stdout, stderr, code)
             fresh == /\ created
                      /\ call.tool = "warden_init_project"
                      /\ code = 0
                      /\ call.cwd \notin envExists
             withEnv == IF fresh THEN envExists \cup {call.cwd} ELSE envExists
             contentOf == IF fresh THEN [envContent EXCEPT ![call.cwd] = TemplateEnv]
                          ELSE envContent
             step == Settled(call, r, withEnv, contentOf)
         IN  /\ created => fresh
             /\ call' = AfterStep([call EXCEPT !.results = Append(@, r)], step)
             /\ envExists' = withEnv
             /\ envContent' = WriteEnv(contentOf, step.write)
    /\ UNCHANGED <<nCalls, dirs, phpunitFiles, pvars, evars, rvars, ovars>>

\* The child could not be started (993-1000): the promise rejects and the
\* handler's catch block runs.
RunnerRejects ==
    /\ call.pc = "await"
    /\ LET r == Rejected(<<>>, <<>>)
           step == Settled(call, r, envExists, envContent)
       IN  call' = AfterStep([call EXCEPT !.results = Append(@, r)], step)
    /\ UNCHANGED <<nCalls, fsvars, pvars, evars, rvars, ovars>>

\* The envelope, or the error, goes back to the client.
Respond ==
    /\ call.pc = "done"
    /\ call' = IdleCall
    /\ UNCHANGED <<nCalls, fsvars, pvars, evars, rvars, ovars>>

(***************************************************************************)
(* Two initProject calls on one project path, in one server process.       *)
(* The transport hands each request to the dispatcher as it arrives, so a  *)
(* second call may start while the first awaits its child process. The     *)
(* JavaScript of both calls runs on one thread: a call's code runs from    *)
(* one await to the next (or to its return) before any other callback.     *)
(* The two `warden env init` children are operating-system processes and   *)
(* run beside the thread.                                                  *)
(***************************************************************************)
OverlapCalls == 1..2

\* The .env file does not exist (existsSync is false, 917).
NoFile == <<"<absent>">>

\* What the two requests may ask for: the same project_path, and a PHP
\* version and a Redis switch of their own.
OverlapArgs ==
    { [BaseArgs EXCEPT !.project_path = DirP, !.project_name = <<"shop">>,
                       !.php_version = v, !.enable_redis = e] :
        v \in {<<"8.2">>, <<"8.3">>, <<"8", "$", "&">>},
        e \in {Undefined, FalseValue} }

\* A call that has not arrived.
OverlapIdle ==
    [pc |-> "off", args |-> BaseArgs, childWrote |-> FALSE, code |-> 0,
     envContent |-> <<>>, keyIdx |-> 1, isError |-> FALSE]

\* readFileSync (918), String.replace (940), += (942) and writeFileSync
\* (946) return to their caller: the call keeps the thread from its read to
\* its write.
ThreadAfterSyncStep(c) == c

\* The code of call c may run: no other call's code is running.
Runnable(c) == othread \in {0, c}

\* 878-908: the arguments are destructured, the directory is made, the child
\* is spawned and the call suspends at its await.
OverlapInvoke(c) ==
    /\ ocall[c].pc = "off"
    /\ Runnable(c)
    /\ \E a \in OverlapArgs :
         ocall' = [ocall EXCEPT ![c] = [@ EXCEPT !.pc = "await", !.args = a]]
    /\ othread' = 0
    /\ UNCHANGED <<ofile, opasses, pvars, evars, cvars, rvars>>

\* 904-908: the child `warden env init`, while it runs, writes the project's
\* .env file (the file line 914 calls "the generated .env file").
OverlapChildWrites(c) ==
    /\ ocall[c].pc = "await"
    /\ ~ocall[c].childWrote
    /\ ofile' = TemplateEnv
    /\ ocall' = [ocall EXCEPT ![c] = [@ EXCEPT !.childWrote = TRUE]]
    /\ UNCHANGED <<othread, opasses, pvars, evars, cvars, rvars>>

\* 989-991, 904: the child's 'close' event resolves the promise and the
\* call's continuation is queued ahead of every other callback.
OverlapClose(c) ==
    /\ ocall[c].pc = "await"
    /\ Runnable(c)
    /\ \E code \in 0..MaxExit :
         ocall' = [ocall EXCEPT ![c] = [@ EXCEPT !.pc = "resumed", !.code = code]]
    /\ othread' = c
    /\ UNCHANGED <<ofile, opasses, pvars, evars, cvars, rvars>>

\* 910-917, 949-968: a non-zero code throws into the catch block, which
\* returns the error envelope; without a .env file the call returns its
\* success envelope; otherwise the pass begins.
OverlapResume(c) ==
    /\ ocall[c].pc = "resumed"
    /\ Runnable(c)
    /\ IF ocall[c].code # 0
       THEN /\ ocall' = [ocall EXCEPT ![c] = [@ EXCEPT !.pc = "returned", !.isError = TRUE]]
            /\ othread' = 0
       ELSE IF ofile = NoFile
       THEN /\ ocall' = [ocall EXCEPT ![c] = [@ EXCEPT !.pc = "returned"]]
            /\ othread' = 0
       ELSE /\ ocall' = [ocall EXCEPT ![c] = [@ EXCEPT !.pc = "read"]]
            /\ othread' = c
    /\ UNCHANGED <<ofile, opasses, pvars, evars, cvars, rvars>>

\* 918: let envContent = readFileSync(envFilePath, "utf8")
OverlapRead(c) ==
    /\ ocall[c].pc = "read"
    /\ Runnable(c)
    /\ ofile # NoFile
    /\ ocall' = [ocall EXCEPT ![c] = [@ EXCEPT !.pc = "update", !.envContent = ofile,
                                                !.keyIdx = 1]]
    /\ othread' = ThreadAfterSyncStep(c)
    /\ UNCHANGED <<ofile, opasses, pvars, evars, cvars, rvars>>

\* 937-944: one turn of the for-loop.
OverlapUpdateKey(c) ==
    /\ ocall[c].pc = "update"
    /\ Runnable(c)
    /\ ocall[c].keyIdx <= Len(updates(ocall[c].args))
    /\ LET u == updates(ocall[c].args)[ocall[c].keyIdx]
       IN  ocall' = [ocall EXCEPT ![c] =
                        [@ EXCEPT !.envContent = UpdateEnvKey(@, u.key, u.value),
                                  !.keyIdx = @ + 1]]
    /\ othread' = ThreadAfterSyncStep(c)
    /\ UNCHANGED <<ofile, opasses, pvars, evars, cvars, rvars>>

\* 946-957: writeFileSync(envFilePath, envContent), then the success
\* envelope is returned.
OverlapWrite(c) ==
    /\ ocall[c].pc = "update"
    /\ Runnable(c)
    /\ ocall[c].keyIdx > Len(updates(ocall[c].args))
    /\ ofile' = ocall[c].envContent
    /\ opasses' = Append(opasses, c)
    /\ ocall' = [ocall EXCEPT ![c] = [@ EXCEPT !.pc = "returned"]]
    /\ othread' = 0
    /\ UNCHANGED <<pvars, evars, cvars, rvars>>

OverlapNext ==
    \E c \in OverlapCalls :
        \/ OverlapInvoke(c)
        \/ OverlapChildWrites(c)
        \/ OverlapClose(c)
        \/ OverlapResume(c)
        \/ OverlapRead(c)
        \/ OverlapUpdateKey(c)
        \/ OverlapWrite(c)

\* No initProject call has arrived and none will.
OverlapOff ==
    /\ ocall = [c \in OverlapCalls |-> OverlapIdle]
    /\ ofile = NoFile
    /\ othread = 0
    /\ opasses = <<>>

\* The parser and the .env pass at rest.
ParserOff ==
    /\ ppc = "off"
    /\ srcLines = <<>>
    /\ plainOut = <<>>
    /\ output = <<>>
    /\ lines = <<>>
    /\ lineIdx = 1
    /\ currentProject = <<>>
    /\ environments = <<>>

EnvPassOff ==
    /\ epc = "off"
    /\ envArgs = BaseArgs
    /\ envBefore = <<>>
    /\ envFileNow = <<>>
    /\ envContentVar = <<>>
    /\ keyIdx = 1

\* No call in progress and none to come.
CallsOff ==
    /\ call = IdleCall
    /\ nCalls = MaxCalls
    /\ dirs = {Cwd}
    /\ phpunitFiles = {}
    /\ envExists = {}
    /\ envContent = [d \in {Cwd, DirP, DirQ} |-> <<>>]

\* The server after construction: no call yet; the working directory and one
\* project directory exist; the project may hold PHPUnit configuration files
\* and a .env file.
Init ==
    /\ ParserOff
    /\ EnvPassOff
    /\ RunnerOff
    /\ OverlapOff
    /\ call = IdleCall
    /\ nCalls = 0
    /\ dirs = {Cwd, DirP}
    /\ phpunitFiles \in SUBSET {<<DirP, "phpunit.xml.dist">>, <<DirP, "phpunit.xml">>}
    /\ envExists \in {{}, {DirP}}
    /\ envContent = [d \in {Cwd, DirP, DirQ} |->
                        IF d \in envExists THEN TemplateEnv ELSE <<>>]

Next == Dispatch \/ RunnerResolves \/ RunnerRejects \/ Respond

Spec == Init /\ [][Next]_vars

(***************************************************************************)
(* Status texts: lines of the shapes `warden status` prints, and lines     *)
(* that break them.                                                        *)
(***************************************************************************)
MaxLines == 4

NameLines ==
    { [kind |-> "name", name |-> <<"s", "1">>, path |-> <<>>,
       text |-> <<" ", " ", "s", "1", " ", "a", " ", "m", "2", " ",
                  "p", "r", "o", "j", "e", "c", "t">>],
      [kind |-> "name", name |-> <<"b", "_", "2">>, path |-> <<>>,
       text |-> <<"b", "_", "2", " ", "a", " ", "p", "h", "p", " ",
                  "p", "r", "o", "j", "e", "c", "t", " ", " ">>],
      [kind |-> "name", name |-> <<"c", "3">>, path |-> <<>>,
       text |-> <<" ", " ", "ESC", "[", "1", ";", "3", "5", "m", "c", "3",
                  "ESC", "[", "0", "m", " ", "a", " ", "ESC", "[", "3", "6", "m",
                  "m", "2", "ESC", "[", "0", "m", " ",
                  "p", "r", "o", "j", "e", "c", "t">>] }

PlainDirLines ==
    { [kind |-> "dir", name |-> <<>>, path |-> <<"/", "s", "r", "v", "/", "s">>,
       text |-> <<" ", " ", " ", "P", "r", "o", "j", "e", "c", "t", " ",
                  "D", "i", "r", "e", "c", "t", "o", "r", "y", ":", " ",
                  "/", "s", "r", "v", "/", "s">>],
      [kind |-> "dir", name |-> <<>>, path |-> <<"/", "m", "y", " ", "d", "i", "r">>,
       text |-> <<"P", "r", "o", "j", "e", "c", "t", " ",
                  "D", "i", "r", "e", "c", "t", "o", "r", "y", ":", " ", " ",
                  "/", "m", "y", " ", "d", "i", "r", " ">>] }

\* A project directory whose path contains the words of the header line.
BannerDirLine ==
    [kind |-> "dir", name |-> <<>>,
     path |-> <<"/", "F", "o", "u", "n", "d", " ", "t", "h", "e", " ",
                "f", "o", "l", "l", "o", "w", "i", "n", "g">>,
     text |-> <<"P", "r", "o", "j", "e", "c", "t", " ",
                "D", "i", "r", "e", "c", "t", "o", "r", "y", ":", " ",
                "/", "F", "o", "u", "n", "d", " ", "t", "h", "e", " ",
                "f", "o", "l", "l", "o", "w", "i", "n", "g">>]

DirLines == PlainDirLines \cup {BannerDirLine}

OtherLines ==
    { [kind |-> "url", name |-> <<>>, path |-> <<>>,
       text |-> <<" ", " ", " ", "P", "r", "o", "j", "e", "c", "t", " ",
                  "U", "R", "L", ":", " ", "u", ".", "t", "e", "s", "t">>],
      [kind |-> "blank", name |-> <<>>, path |-> <<>>, text |-> <<>>],
      [kind |-> "banner", name |-> <<>>, path |-> <<>>,
       text |-> <<"F", "o", "u", "n", "d", " ", "t", "h", "e", " ",
                  "f", "o", "l", "l", "o", "w", "i", "n", "g", " ",
                  "r", "u", "n", "n", "i", "n", "g", " ",
                  "e", "n", "v", "i", "r", "o", "n", "m", "e", "n", "t", "s", ":">>],
      \* a name the pattern \w+ does not cover
      [kind |-> "junk", name |-> <<>>, path |-> <<>>,
       text |-> <<"m", "y", "-", "s", "h", "o", "p", " ", "a", " ", "m", "2", " ",
                  "p", "r", "o", "j", "e", "c", "t">>] }

LineSet == NameLines \cup DirLines \cup OtherLines

SeqsUpTo(S, n) == UNION { [1..k -> S] : k \in 0..n }

TextOf(ls) == JoinLines([i \in 1..Len(ls) |-> ls[i].text])

InitParse ==
    /\ srcLines \in SeqsUpTo(LineSet, MaxLines)
    /\ plainOut = TextOf(srcLines)
    /\ output = plainOut
    /\ ppc = "start"
    /\ lines = <<>>
    /\ lineIdx = 1
    /\ currentProject = <<>>
    /\ environments = <<>>
    /\ EnvPassOff
    /\ CallsOff
    /\ RunnerOff
    /\ OverlapOff

SpecParse == InitParse /\ [][ParseNext]_vars

(***************************************************************************)
(* Status texts with one colour code inserted somewhere in one line.       *)
(***************************************************************************)
MaxAnsiLines == 2

AnsiCodes == { <<"ESC", "[", "0", "m">>, <<"ESC", "[", "1", ";", "3", "5", "m">> }

\* Lines without any colour code.
PlainLines == { l \in LineSet \ {BannerDirLine} : ~Includes(l.text, <<ESC>>) }

InsertAt(s, p, e) == Take(s, p) \o e \o Drop(s, p)

InitAnsi ==
    /\ srcLines \in SeqsUpTo(PlainLines, MaxAnsiLines)
    /\ srcLines # <<>>
    /\ plainOut = TextOf(srcLines)
    /\ \E i \in 1..Len(srcLines) :
         \E p \in 0..Len(srcLines[i].text) :
           \E e \in AnsiCodes :
             output = JoinLines([j \in 1..Len(srcLines) |->
                                   IF j = i THEN InsertAt(srcLines[j].text, p, e)
                                   ELSE srcLines[j].text])
    /\ ppc = "start"
    /\ lines = <<>>
    /\ lineIdx = 1
    /\ currentProject = <<>>
    /\ environments = <<>>
    /\ EnvPassOff
    /\ CallsOff
    /\ RunnerOff
    /\ OverlapOff

SpecAnsi == InitAnsi /\ [][ParseNext]_vars

(***************************************************************************)
(* The .env pass on its own: a file of a few lines and an initialization   *)
(* request.                                                                *)
(***************************************************************************)
MaxEnvLines == 3

EnvLines ==
    { <<"PHP_VERSION", "=", "8.1">>, <<"PHP_VERSION", "=", "7.4">>,
      <<"WARDEN_REDIS", "=", "1">>, <<"REDIS_VERSION", "=", "6">>,
      <<"WARDEN_ENV_NAME", "=", "shop">>, <<"#", " ", "c">>, <<>> }

EnvArgs ==
    { [BaseArgs EXCEPT !.php_version = v, !.redis_version = r, !.enable_redis = e] :
        v \in {Undefined, <<"8.3">>, <<"8", "$", "&">>},
        r \in {Undefined, <<"7.2">>},
        e \in {Undefined, FalseValue} }

InitEnv ==
    /\ ParserOff
    /\ CallsOff
    /\ RunnerOff
    /\ OverlapOff
    /\ epc = "read"
    /\ envArgs \in EnvArgs
    /\ envFileNow \in { JoinLines(ls) : ls \in SeqsUpTo(EnvLines, MaxEnvLines) }
    /\ envBefore = envFileNow
    /\ envContentVar = <<>>
    /\ keyIdx = 1

SpecEnv == InitEnv /\ [][EnvNext]_vars

(***************************************************************************)
(* Tool calls when every child process terminates or fails to start, and   *)
(* the event loop keeps running.                                           *)
(***************************************************************************)
\* The server after construction, in a project that holds both PHPUnit
\* configuration files and a .env file.
InitLive ==
    /\ Init
    /\ Cardinality(phpunitFiles) = 2
    /\ envExists = {DirP}

SpecLive ==
    /\ InitLive
    /\ [][Next]_vars
    /\ WF_vars(RunnerRejects \/ RunnerResolves)
    /\ WF_vars(Respond)

(***************************************************************************)
(* One call of executeCommand on its own.                                  *)
(***************************************************************************)
InitRunner ==
    /\ ParserOff
    /\ EnvPassOff
    /\ CallsOff
    /\ RunnerOff
    /\ OverlapOff

SpecRunner == InitRunner /\ [][RunnerNext]_vars

(***************************************************************************)
(* Two initProject calls that target the same project path. The project    *)
(* directory may already hold a .env file.                                 *)
(***************************************************************************)
InitOverlap ==
    /\ ParserOff
    /\ EnvPassOff
    /\ CallsOff
    /\ RunnerOff
    /\ ocall = [c \in OverlapCalls |-> OverlapIdle]
    /\ ofile \in {NoFile, TemplateEnv}
    /\ othread = 0
    /\ opasses = <<>>

SpecOverlap == InitOverlap /\ [][OverlapNext]_vars

(***************************************************************************)
(* Claims about the parser                                                 *)
(***************************************************************************)
\* A text made of blocks: a name line, a directory line, an optional URL line.
RECURSIVE WellFormed(_)
WellFormed(ls) ==
    IF ls = <<>> THEN TRUE
    ELSE /\ Len(ls) >= 2
         /\ ls[1].kind = "name"
         /\ ls[2].kind = "dir"
         /\ IF Len(ls) >= 3 /\ ls[3].kind = "url"
            THEN WellFormed(Drop(ls, 3))
            ELSE WellFormed(Drop(ls, 2))

\* The (name, path) of each block of a well-formed text, in order.
RECURSIVE BlockRecords(_)
BlockRecords(ls) ==
    IF Len(ls) < 2 THEN <<>>
    ELSE <<[name |-> ls[1].name, path |-> ls[2].path]>>
         \o (IF Len(ls) >= 3 /\ ls[3].kind = "url"
             THEN BlockRecords(Drop(ls, 3))
             ELSE BlockRecords(Drop(ls, 2)))

\* C6: for a status text made of n well-formed blocks, parse returns exactly n
\* records in source order, the i-th carrying the i-th block's name and its
\* trimmed directory path.
C6_WellFormedBlocksParsed ==
    (ppc = "returned" /\ WellFormed(srcLines))
        => NamePath(environments) = BlockRecords(srcLines)

\* The loop is about to visit line lineIdx, which is srcLines[lineIdx].
AtLine == ppc = "loop" /\ lineIdx <= Len(lines) /\ lineIdx <= Len(srcLines)

\* C7: a directory line met while no name is pending emits no record; a name
\* line met while a name is pending emits no record and overwrites the pending
\* name; a record, when one is emitted, carries the pending name, which is
\* thereby the later of two consecutive name lines.
C7_PendingSlotOverwritten ==
    [][ AtLine =>
          /\ (srcLines[lineIdx].kind = "dir" /\ currentProject = <<>>)
                => (environments' = environments /\ currentProject' = <<>>)
          /\ (srcLines[lineIdx].kind = "name" /\ currentProject # <<>>)
                => (/\ environments' = environments
                    /\ currentProject' = srcLines[lineIdx].name)
          /\ (environments' # environments)
                => (/\ srcLines[lineIdx].kind = "dir"
                    /\ currentProject # <<>>
                    /\ Len(environments') = Len(environments) + 1
                    /\ SubSeq(environments', 1, Len(environments)) = environments
                    /\ environments'[Len(environments')].name = currentProject
                    /\ currentProject' = <<>>)
      ]_vars

\* C7's case: a directory line first, then two name lines, then a directory
\* line; the one record pairs the last directory with the later name.
C7_Witness ==
    /\ ppc = "returned"
    /\ Len(srcLines) = 4
    /\ srcLines[1].kind = "dir"
    /\ srcLines[2].kind = "name"
    /\ srcLines[3].kind = "name"
    /\ srcLines[2].name # srcLines[3].name
    /\ srcLines[4].kind = "dir"
    /\ NamePath(environments) = <<[name |-> srcLines[3].name, path |-> srcLines[4].path]>>

\* C8: a text and the same text with colour codes inserted parse to the same
\* sequence of (name, path) records.
C8_AnsiInsertionInvisible ==
    ppc = "returned"
        => NamePath(environments) = NamePath(parseEnvironmentList(plainOut))

(***************************************************************************)
(* Claims about the .env pass                                              *)
(***************************************************************************)
\* The indexes of the lines of key `key`.
KeyLines(ls, key) == { j \in 1..Len(ls) : StartsWith(ls[j], <<key, "=">>) }

FixedKeys == { updates(BaseArgs)[i].key : i \in 1..Len(updates(BaseArgs)) }

\* C10: after the pass, for each key of the fixed set the file holds exactly
\* one line of the key, KEY=<requested value>; it stands where the key's line
\* stood when the file had one, and after the file's old lines when it had
\* none; exactly the absent keys' lines are appended; lines of other keys are
\* unchanged.
C10_EnvKeysReplacedOrAppended ==
    epc = "written" =>
        LET before == SplitLines(envBefore)
            after  == SplitLines(envFileNow)
            ups    == updates(envArgs)
            absent == { i \in 1..Len(ups) : KeyLines(before, ups[i].key) = {} }
        IN  /\ Len(after) = Len(before) + Cardinality(absent)
            /\ \A i \in 1..Len(ups) :
                 /\ Cardinality(KeyLines(after, ups[i].key)) = 1
                 /\ \A j \in KeyLines(after, ups[i].key) :
                      /\ after[j] = <<ups[i].key, "=">> \o ups[i].value
                      /\ IF i \in absent THEN j > Len(before)
                         ELSE j = FirstKeyLine(before, ups[i].key)
            /\ \A j \in 1..Len(before) :
                 (\A k \in FixedKeys : ~StartsWith(before[j], <<k, "=">>))
                     => (j <= Len(after) /\ after[j] = before[j])

(***************************************************************************)
(* Claims about tool calls                                                 *)
(***************************************************************************)
\* inputSchema.required of each tool of the catalog (41-312).
RequiredOf(tool) ==
    CASE tool \in LifecycleTools -> {"project_path"}
      [] tool = "warden_db_query" -> {"project_path", "query"}
      [] tool = "warden_php_script" -> {"project_path", "script_path"}
      [] tool = "warden_magento_cli" -> {"project_path", "command"}
      [] tool = "warden_run_unit_tests" -> {"project_path"}
      [] tool = "warden_composer" -> {"project_path", "command"}
      [] tool = "warden_init_project" -> {"project_path", "project_name"}
      [] OTHER -> {}

MissingRequired(c) ==
    \E name \in RequiredOf(c.tool) : ~c.args.defined \/ c.args[name] = Undefined

\* The call failed without running anything: an isError envelope, no run.
FailedBeforeRunner(c) ==
    /\ Len(c.runs) = 0
    /\ c.pc = "done" => (c.outcome.kind = "envelope" /\ c.outcome.isError)

\* C1: a call that misses a required parameter never invokes the runner and
\* ends with an envelope whose isError is true.
C1_MissingParameterRejected ==
    (call.pc # "idle" /\ MissingRequired(call)) => FailedBeforeRunner(call)

\* The tools of the catalog that work in a project directory.
PathTools == Catalog \ {"warden_list_environments", "warden_init_project"}

NoSuchDirectory(c) ==
    /\ c.args.defined
    /\ c.args.project_path # Undefined
    /\ resolve(StripTrailingSlashes(c.args.project_path)) \notin dirs

\* C2: a call of a project tool whose project path does not exist never
\* invokes the runner and ends with an envelope whose isError is true.
C2_MissingDirectoryRejected ==
    (call.pc # "idle" /\ call.tool \in PathTools /\ NoSuchDirectory(call))
        => FailedBeforeRunner(call)

\* C3: a finished call ends with a raised error exactly when its tool name is
\* not in the catalog; every call of a catalog tool ends with an envelope.
C3_OnlyUnknownToolRaises ==
    call.pc = "done" => (call.outcome.kind = "raised" <=> call.tool \notin Catalog)

\* C4 as stated: a finished call has run the runner exactly once, the
\* dependency-manager tool at most three times.
C4_OneRunOrUpToThree ==
    call.pc = "done" =>
        IF call.tool = "warden_composer" THEN Len(call.runs) <= 3
        ELSE Len(call.runs) = 1

\* C4 amended: a call runs the runner at most once, the dependency-manager
\* tool at most four times (three probes and the requested subcommand); a run
\* starts only when the one before it has settled; a call that ends without a
\* run ends with a raised error or with a caught failure.
C4_OneRunOrUpToFour ==
    /\ Len(call.runs) <= (IF call.tool = "warden_composer" THEN 4 ELSE 1)
    /\ Len(call.runs) - Len(call.results) = (IF call.pc = "await" THEN 1 ELSE 0)
    /\ (call.pc = "done" /\ Len(call.runs) = 0)
          => \/ call.outcome.kind = "raised"
             \/ (call.outcome.isError /\ call.caught)

\* C4's case: both probes and the version check passed, the subcommand ran.
C4_Witness ==
    /\ call.pc = "done"
    /\ call.tool = "warden_composer"
    /\ Len(call.runs) = 4
    /\ call.runs[4].stage = "main"
    /\ call.runs[4].argv[5] = <<"composer">>

\* The last CommandResult the call obtained has exit code 0.
LastExitZero(c) ==
    /\ c.results # <<>>
    /\ c.results[Len(c.results)].settled = "resolved"
    /\ c.results[Len(c.results)].code = 0

\* The words "composer version 2", in any of the spellings the outputs use.
SaysVersionTwo(text) ==
    \E i \in 1..(Len(text) - 4) :
        /\ text[i] \in {"composer", "Composer", "COMPOSER"}
        /\ text[i + 1] = " "
        /\ text[i + 2] \in {"version", "Version"}
        /\ text[i + 3] = " "
        /\ text[i + 4] = "2"

\* The generic executable reported a version other than 2.
VersionMismatch(c) ==
    /\ c.tool = "warden_composer"
    /\ Len(c.results) >= 3
    /\ c.results[1].settled = "resolved" /\ c.results[1].code # 0
    /\ c.results[3].settled = "resolved" /\ c.results[3].code = 0
    /\ ~SaysVersionTwo(c.results[3].stdout)

\* C5 as stated: in a returned envelope isError is false exactly when the last
\* process the call ran exited 0 and no failure was caught.
C5_IsErrorFromLastExit ==
    (call.pc = "done" /\ call.outcome.kind = "envelope")
        => (call.outcome.isError = FALSE <=> (LastExitZero(call) /\ ~call.caught))

\* C5 amended: in a returned envelope isError is false exactly when the last
\* process the call ran exited 0, no failure was caught, and the envelope is
\* not the dependency manager's 'version 2 is required' one.
C5_IsErrorFromLastExitOrMismatch ==
    (call.pc = "done" /\ call.outcome.kind = "envelope")
        => (call.outcome.isError = FALSE
              <=> (LastExitZero(call) /\ ~call.caught /\ ~VersionMismatch(call)))

\* C5's case: the version check exited 0, nothing was thrown, isError is true.
C5_Witness ==
    /\ call.pc = "done"
    /\ call.outcome.kind = "envelope"
    /\ call.outcome.isError
    /\ call.outcome.template = "composer_v2_required"
    /\ LastExitZero(call)
    /\ ~call.caught

\* C9: once the composer2 probe has exited non-zero and `composer --version`
\* has printed a text without the marker 'composer version 2' (and exited 0),
\* the call is over with the isError envelope 'version 2 is required', and no
\* run of the call carries the requested subcommand.
C9_VersionTwoRequired ==
    VersionMismatch(call) =>
        /\ call.pc = "done"
        /\ call.outcome.kind = "envelope"
        /\ call.outcome.isError
        /\ call.outcome.template = "composer_v2_required"
        /\ Len(call.runs) = 3
        /\ \A i \in 1..Len(call.runs) :
             /\ call.runs[i].stage # "main"
             /\ call.runs[i].argv \notin
                  { ComposerArgs(x, call.args.command) : x \in {"composer", "composer2"} }

\* C9's case: composer2 is absent, composer is present and reports version 1.
C9_Witness ==
    /\ VersionMismatch(call)
    /\ call.results[2].code = 0
    /\ call.results[3].stdout = VersionOne
    /\ call.outcome.stdout = Trim(VersionOne)

(***************************************************************************)
(* Claims about the test runner                                            *)
(***************************************************************************)
\* The test-runner call c works in a project directory that was named.
TestRunIn(c) ==
    /\ c.pc # "idle"
    /\ c.tool = "warden_run_unit_tests"
    /\ c.args.defined
    /\ c.args.project_path # Undefined

\* The element that follows -c in the call's one run.
ConfigUsed(c) == c.runs[1].argv[8]

\* C11: without an explicit config_file the test runner runs with
\* phpunit.xml.dist when the project directory holds it (also when it holds
\* phpunit.xml as well), with phpunit.xml when it holds only that, and ends
\* with the error 'No PHPUnit configuration file found', without a run, when it
\* holds neither; a non-empty config_file is used as given, whatever the
\* directory holds.
C11_ConfigFileDetection ==
    TestRunIn(call) =>
        LET dir      == resolve(StripTrailingSlashes(call.args.project_path))
            hasDist  == <<dir, "phpunit.xml.dist">> \in phpunitFiles
            hasPlain == <<dir, "phpunit.xml">> \in phpunitFiles
            explicit == call.args.config_file \notin {Undefined, <<>>}
        IN  /\ explicit
               => (Len(call.runs) = 1 /\ ConfigUsed(call) = call.args.config_file)
            /\ (~explicit /\ hasDist)
               => (Len(call.runs) = 1 /\ ConfigUsed(call) = <<"phpunit.xml.dist">>)
            /\ (~explicit /\ ~hasDist /\ hasPlain)
               => (Len(call.runs) = 1 /\ ConfigUsed(call) = <<"phpunit.xml">>)
            /\ (~explicit /\ ~hasDist /\ ~hasPlain)
               => /\ Len(call.runs) = 0
                  /\ call.pc = "done"
                  /\ call.outcome.kind = "raised"
                  /\ call.outcome.message = <<"No PHPUnit configuration file found">>

\* C11's case: both files exist, none is named, the dist file is used.
C11_Witness ==
    /\ TestRunIn(call)
    /\ call.args.config_file = Undefined
    /\ {<<call.cwd, "phpunit.xml.dist">>, <<call.cwd, "phpunit.xml">>} \subseteq phpunitFiles
    /\ Len(call.runs) = 1
    /\ ConfigUsed(call) = <<"phpunit.xml.dist">>

(***************************************************************************)
(* Claims about the process runner                                         *)
(***************************************************************************)
\* C12: the promise is resolved exactly for a child that was started and has
\* closed, with the stdout and stderr captured and the code of its 'close'
\* event, whatever the code is; it is rejected only for a child that could not
\* be started; and the rejection carries the stdout and stderr captured when
\* 'error' arrived.
C12_ResolvesOnCloseRejectsOnSpawnFailure ==
    /\ [](/\ promise.settled = "resolved"
             => (/\ ~spawnFailed
                 /\ child = "closed"
                 /\ promise = Resolved(rstdout, rstderr, exitCode[1]))
          /\ (child = "closed" /\ ~spawnFailed) => promise.settled = "resolved"
          /\ promise.settled = "rejected" => spawnFailed)
    /\ [][(promise.settled = "pending" /\ promise'.settled = "rejected")
            => (promise'.stdout = rstdout /\ promise'.stderr = rstderr)]_vars

\* C12's case: a child that printed something and exited with a non-zero code.
C12_Witness ==
    /\ child = "closed"
    /\ ~spawnFailed
    /\ exitCode # <<0>>
    /\ rstdout # <<>>
    /\ promise = Resolved(rstdout, rstderr, exitCode[1])
    /\ received = promise

\* C18: the first of 'close' and 'error' settles the promise; once settled the
\* promise never changes, whatever event or data comes later; and what the
\* caller received is the settled promise's value and never changes.
C18_SettlesOnce ==
    /\ [][/\ (settleCalls = 0 /\ settleCalls' = 1) => promise'.settled # "pending"
          /\ promise.settled # "pending" => promise' = promise
          /\ received.settled # "pending" => received' = received]_vars
    /\ [](/\ settleCalls = 0 => promise.settled = "pending"
          /\ received.settled # "pending" => received = promise)

\* C18's case: 'error' settled the promise, the caller received the failure,
\* then more data and 'close' arrived.
C18_Witness ==
    /\ settleCalls = 2
    /\ child = "closed"
    /\ promise.settled = "rejected"
    /\ received = promise
    /\ rstdout # promise.stdout

(***************************************************************************)
(* Claims about the database query                                         *)
(***************************************************************************)
\* A database-query call with a query, in a project directory that exists.
DbQueryIn(c) ==
    /\ c.pc # "idle"
    /\ c.tool = "warden_db_query"
    /\ c.args.defined
    /\ c.args.query # Undefined
    /\ c.args.project_path \notin {Undefined, <<>>}
    /\ resolve(StripTrailingSlashes(c.args.project_path)) \in dirs

\* C13: for a database query in an existing project directory, the runner is
\* invoked exactly once, in the resolved directory, with the vector env exec -T
\* db mysql -u root -pmagento d -e q, where d is the database parameter, or
\* magento when it is omitted, and q is one element; when the process exits
\* with code 0 the envelope has isError = false.
C13_DbQueryVector ==
    DbQueryIn(call) =>
        /\ Len(call.runs) = 1
        /\ call.runs[1].cwd = resolve(StripTrailingSlashes(call.args.project_path))
        /\ call.runs[1].argv =
             << <<"env">>, <<"exec">>, <<"-T">>, <<"db">>, <<"mysql">>, <<"-u">>,
                <<"root">>, <<"-pmagento">>,
                IF call.args.database = Undefined THEN <<"magento">>
                ELSE call.args.database,
                <<"-e">>, call.args.query >>
        /\ (call.pc = "done" /\ LastExitZero(call))
              => (call.outcome.kind = "envelope" /\ ~call.outcome.isError)

\* C13's case: a query of several words, the database omitted, exit code 0.
C13_Witness ==
    /\ DbQueryIn(call)
    /\ call.pc = "done"
    /\ call.args.database = Undefined
    /\ Len(call.args.query) > 1
    /\ call.runs[1].argv[9] = <<"magento">>
    /\ call.runs[1].argv[11] = call.args.query
    /\ LastExitZero(call)
    /\ ~call.outcome.isError

(***************************************************************************)
(* Claims about failed commands                                            *)
(***************************************************************************)
LastResult(c) == c.results[Len(c.results)]

\* The envelope's text shows the captured text (nothing to show when empty).
Carried(envelope, captured) ==
    \/ captured = <<>>
    \/ \E field \in {envelope.stdout, envelope.stderr, envelope.message} :
         Includes(field, captured)

\* C14: a call that ends after a command that exited with a non-zero code
\* returns an envelope, built on the normal path, with isError = true, the exit
\* code, and the stdout and the stderr the command printed.
C14_NonZeroExitRendered ==
    (/\ call.pc = "done"
     /\ call.results # <<>>
     /\ LastResult(call).settled = "resolved"
     /\ LastResult(call).code # 0)
        => /\ call.outcome.kind = "envelope"
           /\ call.outcome.isError
           /\ ~call.caught
           /\ call.outcome.code = <<LastResult(call).code>>
           /\ Carried(call.outcome, LastResult(call).stdout)
           /\ Carried(call.outcome, LastResult(call).stderr)

SubcommandRun(c, i, x) ==
    c.runs[i].argv =
        << <<"env">>, <<"exec">>, <<"-T">>, <<"php-fpm">>, <<x>> >>
        \o SplitWhiteSpace(Trim(c.args.command))

ExitedZero(r) == r.settled = "resolved" /\ r.code = 0

ExitedNonZero(r) == r.settled = "resolved" /\ r.code # 0

\* C16: in a dependency-manager call, a run that carries the requested
\* subcommand is either the second run, under composer2, after the composer2
\* probe exited 0, or the fourth run, under composer, after the composer2 probe
\* exited non-zero, the composer probe exited 0 and the version probe exited 0
\* with the marker in its output; every probe before it has terminated; and
\* once the probes have established one of the two, the subcommand is spawned.
C16_SubcommandAfterProbes ==
    (call.tool = "warden_composer" /\ call.pc # "idle") =>
        /\ \A i \in 1..Len(call.runs) :
             \A x \in {"composer", "composer2"} :
               SubcommandRun(call, i, x) =>
                 /\ Len(call.results) >= i - 1
                 /\ \/ /\ i = 2
                       /\ x = "composer2"
                       /\ ExitedZero(call.results[1])
                    \/ /\ i = 4
                       /\ x = "composer"
                       /\ ExitedNonZero(call.results[1])
                       /\ ExitedZero(call.results[2])
                       /\ ExitedZero(call.results[3])
                       /\ SaysVersionTwo(call.results[3].stdout)
        /\ (Len(call.results) >= 1 /\ ExitedZero(call.results[1]))
              => (Len(call.runs) = 2 /\ SubcommandRun(call, 2, "composer2"))
        /\ (/\ Len(call.results) >= 3
            /\ ExitedZero(call.results[3])
            /\ SaysVersionTwo(call.results[3].stdout))
              => (Len(call.runs) = 4 /\ SubcommandRun(call, 4, "composer"))

\* C16's case: composer2 is absent, composer reports version 2, and the
\* subcommand has run under composer.
C16_Witness ==
    /\ call.tool = "warden_composer"
    /\ call.pc = "done"
    /\ Len(call.results) = 4
    /\ ExitedNonZero(call.results[1])
    /\ SaysVersionTwo(call.results[3].stdout)
    /\ SubcommandRun(call, 4, "composer")
    /\ Len(call.args.command) > 1

(***************************************************************************)
(* Claims about the progress of a call                                     *)
(***************************************************************************)
\* The place of a run in its handler.
StageRank(stage) ==
    CASE stage = "composer2" -> 1
      [] stage = "composer"  -> 2
      [] stage = "version"   -> 3
      [] stage = "main"      -> 4

\* C17: a call that awaits the runner eventually completes, and a completed
\* call eventually hands over its outcome; an awaiting call moves on only when
\* its runner invocation settles, so it waits for as long as the child does
\* not terminate; the outcome of a completed call is handed over unchanged, once;
\* and the runs of a call go forward through the handler, none a second time.
C17_CallsCompleteOnce ==
    /\ [](call.pc = "await" => <>(call.pc = "done"))
    /\ [](call.pc = "done" => <>(call.pc = "idle"))
    /\ [][/\ (call.pc = "await" /\ call' # call)
               => (/\ Len(call'.results) = Len(call.results) + 1
                   /\ call'.pc \in {"await", "done"})
          /\ call.pc = "done" => call' = IdleCall
          /\ call.pc = "idle" => (call'.results = <<>> /\ nCalls' = nCalls + 1)]_vars
    /\ [](\A i, j \in 1..Len(call.runs) :
            i < j => StageRank(call.runs[i].stage) < StageRank(call.runs[j].stage))

\* C17's case: the last call has completed after a failed `env init`.
C17_Witness ==
    /\ nCalls = MaxCalls
    /\ call.pc = "done"
    /\ call.tool = "warden_init_project"
    /\ Len(call.runs) = 1
    /\ ExitedNonZero(LastResult(call))
    /\ call.outcome.isError

(***************************************************************************)
(* Claims about the initializer's files                                    *)
(***************************************************************************)
\* This step settles the `env init` invocation of an initializer call.
InitSettles ==
    /\ call.tool = "warden_init_project"
    /\ call.pc = "await"
    /\ Len(call'.results) = Len(call.results) + 1

\* C19: the .env files change only in the step that settles `env init` with
\* exit code 0; when `env init` exits with another code or fails to start, the
\* files are as before and the call returns isError = true; after exit code 0
\* the project's file is rewritten when it exists, with each key's update
\* applied to what the file held, and no file appears when it does not; the
\* files of other directories are never touched.
C19_EnvFileFrame ==
    [][/\ (envContent' # envContent \/ envExists' # envExists)
            => (InitSettles /\ ExitedZero(LastResult(call')))
       /\ (InitSettles /\ ~ExitedZero(LastResult(call')))
            => /\ envContent' = envContent
               /\ envExists' = envExists
               /\ call'.pc = "done"
               /\ call'.outcome.kind = "envelope"
               /\ call'.outcome.isError
       /\ (InitSettles /\ ExitedZero(LastResult(call')))
            => /\ \A d \in DOMAIN envContent :
                    d # call.cwd => envContent'[d] = envContent[d]
               /\ envExists' \ {call.cwd} = envExists \ {call.cwd}
               /\ call.cwd \notin envExists' => envContent' = envContent
               /\ call.cwd \in envExists
                    => envContent'[call.cwd] =
                         UpdateEnv(envContent[call.cwd], updates(call.args), 1)
      ]_vars

\* C19's case: `env init` exited with a non-zero code in a project whose .env
\* file holds a PHP version other than the requested one, and still holds it.
C19_Witness ==
    /\ call.tool = "warden_init_project"
    /\ call.pc = "done"
    /\ Len(call.results) = 1
    /\ ExitedNonZero(LastResult(call))
    /\ call.outcome.isError
    /\ call.args.php_version = <<"8.2">>
    /\ call.cwd \in envExists
    /\ envContent[call.cwd] = TemplateEnv

(***************************************************************************)
(* Claims about the pending project name                                   *)
(***************************************************************************)
\* A line between a name line and its directory line: blank, header, URL, a
\* line of no known shape, or a directory line that reads as a header.
Intervening(l) == l.kind \in {"blank", "banner", "url", "junk"} \/ l = BannerDirLine

\* The records of a text: each directory line with the last name line before
\* it that no earlier directory line has taken.
RECURSIVE Pairing(_, _)
Pairing(ls, pending) ==
    IF ls = <<>> THEN <<>>
    ELSE IF Intervening(Head(ls)) THEN Pairing(Tail(ls), pending)
    ELSE IF Head(ls).kind = "name" THEN Pairing(Tail(ls), Head(ls).name)
    ELSE IF pending # <<>>
    THEN <<[name |-> pending, path |-> Head(ls).path]>> \o Pairing(Tail(ls), <<>>)
    ELSE Pairing(Tail(ls), pending)

\* C20: a blank, header, URL or unrecognized line leaves the pending name and
\* the records as they are, so the records of a text are its directory lines,
\* each paired with the last name line before it that is not yet consumed,
\* whatever lies between the two.
C20_PendingNameSurvives ==
    /\ [][(AtLine /\ Intervening(srcLines[lineIdx]))
            => (currentProject' = currentProject /\ environments' = environments)]_vars
    /\ [](ppc = "returned" => NamePath(environments) = Pairing(srcLines, <<>>))

\* C20's case: the name line of the second block is not recognized, and the
\* block's directory goes to the first block's name, two lines further up.
C20_Witness ==
    /\ ppc = "returned"
    /\ Len(srcLines) = 4
    /\ srcLines[1].kind = "name"
    /\ srcLines[2].kind \in {"blank", "banner", "url"}
    /\ srcLines[3].kind = "junk"
    /\ srcLines[4].kind = "dir"
    /\ NamePath(environments) = <<[name |-> srcLines[1].name, path |-> srcLines[4].path]>>

(***************************************************************************)
(* Claims about two overlapping initProject calls                          *)
(***************************************************************************)
\* Call c stands between its read of the .env file and its write.
InPass(c) == ocall[c].pc = "update"

\* No call's pass begins or goes on while the other call is inside its own.
PassesDoNotInterleave == ~(InPass(1) /\ InPass(2))

\* Both calls have returned their success envelope.
BothSucceeded == \A c \in OverlapCalls : ocall[c].pc = "returned" /\ ~ocall[c].isError

\* The file holds, for every key of the fixed set, the value call c asked for
\* and no other value.
HoldsValuesOf(c) ==
    /\ ofile # NoFile
    /\ LET ls  == SplitLines(ofile)
           ups == updates(ocall[c].args)
       IN  \A i \in 1..Len(ups) :
             /\ KeyLines(ls, ups[i].key) # {}
             /\ \A j \in KeyLines(ls, ups[i].key) :
                  ls[j] = <<ups[i].key, "=">> \o ups[i].value

\* C21: of two overlapping initProject calls on one project path, neither
\* call's pass over the .env file runs between the other's read and write,
\* and once both calls have succeeded the file holds, for every key of the
\* fixed set, the value asked for by the call whose pass wrote last.
C21_LastPassWins ==
    /\ PassesDoNotInterleave
    /\ (BothSucceeded /\ Len(opasses) = 2) => HoldsValuesOf(opasses[2])

====
